---- MODULE Spec2Model ----
(***************************************************************************)
(* Model of two NEST model types:                                          *)
(*   - iaf_chs_2007            (src/models/iaf_chs_2007.h)                  *)
(*   - STDPPLConnectionHom     (src/models/stdp_pl_connection_hom.h)        *)
(*                                                                         *)
(* double_t values are carried as fixed-point numbers, Scale units to 1.0; *)
(* a product is rounded to the nearest unit, as IEEE arithmetic rounds to  *)
(* the nearest double.  Times are kept in ms as integers and lie on the    *)
(* simulation grid (multiples of Resolution).  Time constants are measured *)
(* in units of 1/ln 2 ms, so that std::exp(dt / tau) is 2^(dt / tau); the  *)
(* grid makes dt / tau an integer for the time constants used.             *)
(***************************************************************************)
EXTENDS Integers, Sequences, FiniteSets

\* ------------------------------------------------------------------------
\* Bounds of the model
\* ------------------------------------------------------------------------
\* Grid points a spike can be stamped with.
MaxTime == 3

\* Length of a noise signal.
MaxNoise == 2

\* Steps the neuron is advanced.
MaxSteps == 2

\* Calls of send on one synapse.
MaxSends == 2

\* Grid step in ms (Time::step(n).get_ms() = n * Resolution).
Resolution == 2

\* ------------------------------------------------------------------------
\* double_t arithmetic in fixed point
\* ------------------------------------------------------------------------
\* Units to 1.0.
Scale == 10 * 10 * 10

\* n / d rounded to the nearest integer (d > 0).
RoundDiv(n, d) == (2 * n + d) \div (2 * d)

\* The double n / d.
Num(n, d) == RoundDiv(n * Scale, d)

Mul(x, y) == RoundDiv(x * y, Scale)

RECURSIVE IPow(_, _)
IPow(b, k) == IF k = 0 THEN 1 ELSE b * IPow(b, k - 1)

\* std::pow(w, mu) for a natural exponent mu; std::pow(x, 0) is 1.0 for
\* every x, 0.0 included.
RECURSIVE Pow(_, _)
Pow(w, mu) == IF mu = 0 THEN Num(1, 1) ELSE Mul(w, Pow(w, mu - 1))

\* std::exp(dt / tau) in the model's units: 2^(dt / tau), tau dividing dt.
Exp(dt, tau) ==
    LET k == dt \div tau
    IN  IF k >= 0 THEN Num(IPow(2, k), 1) ELSE Num(1, IPow(2, -k))

\* Time(Time::step(n)).get_ms()
get_ms(n) == n * Resolution

\* ------------------------------------------------------------------------
\* State
\* ------------------------------------------------------------------------
VARIABLES
    \* STDPPLConnectionHom (one synapse) and what it reads
    weight_,        \* ConnectionHetWD::weight_
    Kplus_,         \* presynaptic trace
    delay_,         \* ConnectionHetWD::delay_, in steps
    rport_,         \* ConnectionHetWD::rport_
    target_,        \* ConnectionHetWD::target_
    cp,             \* STDPPLHomCommonProperties
    t_lastspike,    \* time of the last spike sent, kept by the connector
    history,        \* spike history of the target (ascending spike times)
    registered,     \* register_stdp_connection calls the target has received
    event,          \* the event last delivered to the target
    lastK,          \* value get_K_value returned in the last send
    lastWin,        \* range get_history returned in the last send
    sends,          \* calls of send so far
    receptor,       \* receptor type asked for in the last check_connection
    \* iaf_chs_2007 (one neuron)
    P_,             \* Parameters_
    S_,             \* State_
    tau_minus_,     \* Archiving_Node property set by Archiving_Node::set_status
    origin,         \* steps simulated so far
    spiked,         \* the last update emitted a spike
    spiketime,      \* time stamp (in steps) given to set_spiketime
    \* outcome of the last call
    op,
    err

synVars == <<weight_, Kplus_, delay_, rport_, target_, cp, t_lastspike,
             history, registered, event, lastK, lastWin, sends,
             receptor>>

nrnVars == <<P_, S_, tau_minus_, origin, spiked, spiketime>>

vars == <<synVars, nrnVars, op, err>>

NoEvent == [receiver |-> "none", weight |-> Num(0, 1), delay |-> 0, rport |-> 0]

\* ------------------------------------------------------------------------
\* Input domains
\* ------------------------------------------------------------------------
TauPlusSet == {1, 2}

LambdaSet == {Num(1, 10), Num(1, 2)}

AlphaSet == {Num(1, 1)}

MuSet == {0, 1}

WeightSet == {Num(0, 1), Num(1, 1)}

DelaySet == {1}

KminusSet == {Num(0, 1), Num(2, 1), Num(20, 1)}

ReceptorSet == {0, 1}

GridTimes == {get_ms(k) : k \in 1..MaxTime}

\* ------------------------------------------------------------------------
\* STDPPLConnectionHom
\* ------------------------------------------------------------------------
\* facilitate_ with the exponent taken as 0 whatever mu_ is.
facilitate_constant(w, kplus, c) ==
    w + Mul(c.lambda_, kplus)

\* facilitate_ with the exponent taken as 1 whatever mu_ is.
facilitate_weighted(w, kplus, c) ==
    w + Mul(Mul(c.lambda_, w), kplus)

facilitate_(w, kplus, c) ==
    w + Mul(Mul(c.lambda_, Pow(w, c.mu_)), kplus)

\* depress_ without the clamp at 0.
depress_unclamped(w, kminus, c) ==
    w - Mul(Mul(Mul(c.lambda_, c.alpha_), w), kminus)

\* depress_ with a decrement that does not scale with the weight.
depress_additive(w, kminus, c) ==
    LET new_w == w - Mul(Mul(c.lambda_, c.alpha_), kminus)
    IN  IF new_w > 0 THEN new_w ELSE 0

depress_(w, kminus, c) ==
    LET new_w == w - Mul(Mul(Mul(c.lambda_, c.alpha_), w), kminus)
    IN  IF new_w > 0 THEN new_w ELSE 0

\* Archiving_Node::get_history(t1, t2, &start, &finish): the entries of the
\* history in (t1, t2], in ascending order.
get_history(h, t1, t2) ==
    LET InRange(t) == t1 < t /\ t <= t2
    IN  SelectSeq(h, InRange)

\* The range of send ending at the stamp of the event itself.
HistoryUpper_stamp(t_spike, dendritic_delay) == t_spike

\* The upper end send gives get_history: the stamp of the event moved back
\* by the dendritic delay.
HistoryUpper(t_spike, dendritic_delay) == t_spike - dendritic_delay

\* The loop of send run as an if: only the entry at start is replayed.
Facilitation_first_entry(w, win, tl, dendritic_delay, kplus, c) ==
    IF win = <<>> THEN w
    ELSE LET minus_dt == tl - (Head(win) + dendritic_delay)
         IN  IF minus_dt = 0 THEN w
             ELSE facilitate_(w, Mul(kplus, Exp(minus_dt, c.tau_plus_)), c)

\* The while loop of send over [start, finish).
RECURSIVE Facilitation(_, _, _, _, _, _)
Facilitation(w, win, tl, dendritic_delay, kplus, c) ==
    IF win = <<>> THEN w
    ELSE LET minus_dt == tl - (Head(win) + dendritic_delay)
             w1 == IF minus_dt = 0 THEN w
                   ELSE facilitate_(w, Mul(kplus, Exp(minus_dt, c.tau_plus_)), c)
         IN  Facilitation(w1, Tail(win), tl, dendritic_delay, kplus, c)

\* Kplus_ decayed but not incremented.
KplusUpdate_no_increment(kplus, tl, t_spike, c) ==
    Mul(kplus, Exp(tl - t_spike, c.tau_plus_))

\* Kplus_ after a send.
KplusUpdate(kplus, tl, t_spike, c) ==
    Mul(kplus, Exp(tl - t_spike, c.tau_plus_)) + Num(1, 1)

\* The event is given the weight before the depression.
ForwardedWeight_early(facilitated, depressed) == facilitated

\* The weight e.set_weight is given: weight_ as it stands after the
\* depression, not as the facilitation loop left it.
ForwardedWeight(facilitated, depressed) == depressed

\* connect_sender accepting every receptor type.
connect_sender_any(receptor_type) == "none"

\* iaf_chs_2007::connect_sender(SpikeEvent&, port): the port, or the error.
connect_sender(receptor_type) ==
    IF receptor_type # 0 THEN "UnknownReceptorType" ELSE "none"

\* Number of registrations check_connection adds for an outcome of the
\* receptor check.
Registrations(outcome) == IF outcome = "none" THEN 1 ELSE 0

\* STDPPLConnectionHom::check_connection, called when the connection is made.
\* The base class call stores the target and asks the sender's
\* check_connection for the port, which ends in the target's connect_sender;
\* an exception leaves before register_stdp_connection.
CheckConnection(receptor_type) ==
    LET outcome == connect_sender(receptor_type)
    IN  /\ registered = 0
        /\ op' = "check_connection"
        /\ err' = outcome
        /\ registered' = registered + Registrations(outcome)
        /\ receptor' = receptor_type
        /\ target_' = "post"
        /\ rport_' = IF outcome = "none" THEN 0 ELSE rport_
        /\ UNCHANGED <<weight_, Kplus_, delay_, cp, t_lastspike, history,
                       event, lastK, lastWin, sends, nrnVars>>

\* STDPPLConnectionHom::send for an event stamped t_spike; kminus is the
\* value get_K_value returns, delivered whether e() returns normally.
Send(t_spike, kminus, delivered) ==
    LET dendritic_delay == get_ms(delay_)
        win == get_history(history, t_lastspike - dendritic_delay,
                           HistoryUpper(t_spike, dendritic_delay))
        wf == Facilitation(weight_, win, t_lastspike, dendritic_delay,
                           Kplus_, cp)
        w == depress_(wf, kminus, cp)
    IN  /\ registered = 1
        /\ sends < MaxSends
        /\ t_spike > t_lastspike
        /\ sends' = sends + 1
        /\ op' = "send"
        /\ weight_' = w
        /\ lastK' = kminus
        /\ lastWin' = win
        /\ IF delivered
           THEN /\ event' = [receiver |-> target_,
                             weight |-> ForwardedWeight(wf, w),
                             delay |-> delay_, rport |-> rport_]
                /\ Kplus_' = KplusUpdate(Kplus_, t_lastspike, t_spike, cp)
                /\ t_lastspike' = t_spike
                /\ err' = "none"
           ELSE /\ err' = "DeliveryFailed"
                /\ UNCHANGED <<event, Kplus_, t_lastspike>>
        /\ UNCHANGED <<delay_, rport_, target_, cp, history, registered,
                       receptor, nrnVars>>

\* Archiving_Node::set_spiketime of the target: a post-synaptic spike at
\* time t enters the history.  The target's step for t ran before any send
\* whose range reaches t, and spike times ascend.
PostSpike(t) ==
    /\ registered = 1
    /\ t + get_ms(delay_) > t_lastspike
    /\ \A i \in 1..Len(history) : history[i] < t
    /\ history' = Append(history, t)
    /\ op' = "set_spiketime"
    /\ err' = "none"
    /\ UNCHANGED <<weight_, Kplus_, delay_, rport_, target_, cp, t_lastspike,
                   registered, event, lastK, lastWin, sends, receptor,
                   nrnVars>>

InitSynapse ==
    /\ weight_ \in WeightSet
    /\ Kplus_ = Num(0, 1)
    /\ delay_ \in DelaySet
    /\ rport_ = 0
    /\ target_ = "none"
    /\ cp \in [tau_plus_ : TauPlusSet, lambda_ : LambdaSet,
               alpha_ : AlphaSet, mu_ : MuSet]
    /\ t_lastspike = 0
    /\ history = <<>>
    /\ registered = 0
    /\ event = NoEvent
    /\ lastK = Num(0, 1)
    /\ lastWin = <<>>
    /\ sends = 0
    /\ receptor = 0

\* ------------------------------------------------------------------------
\* iaf_chs_2007
\* ------------------------------------------------------------------------
NoiseValues == {Num(0, 1), Num(1, 1)}

RECURSIVE SeqsUpTo(_, _)
SeqsUpTo(V, n) ==
    IF n = 0 THEN {<<>>}
    ELSE LET shorter == SeqsUpTo(V, n - 1)
         IN  shorter \cup {Append(q, v) : q \in shorter, v \in V}

NoiseSignals == SeqsUpTo(NoiseValues, MaxNoise)

\* An entry of a status dictionary: <<>> when the key is absent, <<x>> when
\* it is present.  A present entry is [ok, v]: ok is FALSE when updateValue
\* or the setter's own checks reject the datum.
Absent == <<>>

Entry(ok, v) == <<[ok |-> ok, v |-> v]>>

Has(d, key) == d[key] # Absent

Bad(d, key) == Has(d, key) /\ ~d[key][1].ok

Keys == {"tau_epsp", "noise", "V_m", "tau_minus"}

\* The status dictionaries tried: at most one key, or a noise signal
\* together with one entry that is rejected.
Dictionaries ==
    {d \in [tau_epsp : {Absent, Entry(TRUE, 1), Entry(FALSE, 0)},
            noise : {Absent} \cup {Entry(TRUE, q) : q \in NoiseSignals},
            V_m : {Absent, Entry(TRUE, Num(0, 1)), Entry(FALSE, Num(0, 1))},
            tau_minus : {Absent, Entry(TRUE, 2), Entry(FALSE, 0)}] :
        \/ Cardinality({k \in Keys : Has(d, k)}) <= 1
        \/ /\ Has(d, "noise")
           /\ Cardinality({k \in Keys : Has(d, k)}) = 2
           /\ Cardinality({k \in Keys : Bad(d, k)}) = 1}

Get(d, key) == d[key][1].v

\* Parameters_::set(d, s) on a copy p of the parameters and the state s it
\* is handed: <<error, parameters, state>>.  The position is reset when the
\* noise vector is filled with new data; reset_first tells whether that
\* happens before the checks that throw.
Parameters_set(p, s, d, reset_first) ==
    LET failed == Bad(d, "tau_epsp")
        p1 == [p EXCEPT !.tau_epsp_ = IF Has(d, "tau_epsp")
                                      THEN Get(d, "tau_epsp") ELSE @,
                        !.noise_ = IF Has(d, "noise")
                                   THEN Get(d, "noise") ELSE @]
        s1 == IF Has(d, "noise") /\ (reset_first \/ ~failed)
              THEN [s EXCEPT !.position_ = 0] ELSE s
    IN  <<IF failed THEN "BadProperty" ELSE "none", p1, s1>>

\* State_::set(d) on a copy s of the state: <<error, state>>.
State_set(s, d) ==
    IF Bad(d, "V_m") THEN <<"BadProperty", s>>
    ELSE <<"none", IF Has(d, "V_m") THEN [s EXCEPT !.V_m_ = Get(d, "V_m")]
                   ELSE s>>

\* Archiving_Node::set_status(d): <<error, tau_minus_>>.
Archiving_Node_set_status(tm, d) ==
    IF Bad(d, "tau_minus") THEN <<"BadProperty", tm>>
    ELSE <<"none", IF Has(d, "tau_minus") THEN Get(d, "tau_minus") ELSE tm>>

\* iaf_chs_2007::set_status(d).  ptmp.set is handed S_ itself, so what it
\* does to the state it does to the live state; stmp is copied after it.
SetStatus(d, reset_first) ==
    LET pr == Parameters_set(P_, S_, d, reset_first)
        live == pr[3]                  \* S_ after ptmp.set(d, S_)
        sr == State_set(live, d)       \* stmp = S_; stmp.set(d)
        ar == Archiving_Node_set_status(tau_minus_, d)
    IN  /\ reset_first \/ (Has(d, "noise") /\ Bad(d, "tau_epsp"))
        /\ op' = "set_status"
        /\ IF pr[1] # "none"
           THEN /\ err' = pr[1]
                /\ S_' = live
                /\ UNCHANGED <<P_, tau_minus_>>
           ELSE IF sr[1] # "none"
           THEN /\ err' = sr[1]
                /\ S_' = live
                /\ UNCHANGED <<P_, tau_minus_>>
           ELSE IF ar[1] # "none"
           THEN /\ err' = ar[1]
                /\ S_' = live
                /\ UNCHANGED <<P_, tau_minus_>>
           ELSE /\ err' = "none"
                /\ tau_minus_' = ar[2]
                /\ P_' = pr[2]
                /\ S_' = sr[2]
        /\ UNCHANGED <<origin, spiked, spiketime, synVars>>

\* iaf_chs_2007::calibrate: the propagators for the step size h.
Propagators(p) ==
    LET h == Resolution
        P11ex == Exp(-h, p.tau_epsp_)
    IN  [P11ex |-> P11ex,
         P22 |-> P11ex,
         P21ex |-> Mul(Mul(p.U_epsp_, Num(1884, 1000)),
                       RoundDiv(P11ex * h, p.tau_epsp_)),
         P30 |-> Exp(-h, p.tau_reset_)]

\* Threshold test that misses equality.
Crosses_strict(V_m, U_th) == V_m > U_th

\* Whether the updated membrane potential makes the neuron spike.
Crosses(V_m, U_th) == V_m >= U_th

\* The time stamp of a spike emitted in the step that follows `steps` steps.
SpikeStamp(steps) == get_ms(steps + 1)

\* A step that reads the first noise value every time.
NoiseIndex_first(s) == 1

\* The index of the noise value a step reads, and whether one remains.
NoiseIndex(s) == s.position_ + 1

NoiseLeft(p, s) == s.position_ < Len(p.noise_)

\* iaf_chs_2007::update for one step with buffered spike input `input`.
Step(input) ==
    LET V == Propagators(P_)
        V_syn == Mul(S_.V_syn_, V.P22) + Mul(S_.i_syn_ex_, V.P21ex)
        i_syn == Mul(S_.i_syn_ex_, V.P11ex) + input
        V_spike == Mul(S_.V_spike_, V.P30)
    IN  /\ NoiseLeft(P_, S_) => origin < MaxSteps
        /\ op' = "step"
        /\ IF ~NoiseLeft(P_, S_)
           THEN /\ err' = "NoiseExhausted"
                /\ UNCHANGED <<S_, origin, spiked, spiketime>>
           ELSE LET V_m == V_syn + V_spike
                           + Mul(P_.U_noise_, P_.noise_[NoiseIndex(S_)])
                    fire == Crosses(V_m, P_.U_th_)
                IN  /\ err' = "none"
                    /\ S_' = [i_syn_ex_ |-> i_syn,
                              V_syn_ |-> V_syn,
                              V_spike_ |-> IF fire THEN V_spike - P_.U_reset_
                                           ELSE V_spike,
                              V_m_ |-> V_m,
                              position_ |-> S_.position_ + 1]
                    /\ spiked' = fire
                    /\ spiketime' = IF fire THEN SpikeStamp(origin)
                                    ELSE spiketime
                    /\ origin' = origin + 1
        /\ UNCHANGED <<P_, tau_minus_, synVars>>

SpikeInputs == {Num(0, 1), Num(2, 1)}

InitNeuron ==
    /\ P_ = [tau_epsp_ |-> 2, tau_reset_ |-> 2, U_th_ |-> Num(1, 1),
             U_epsp_ |-> Num(1, 1), U_reset_ |-> Num(2, 1),
             U_noise_ |-> Num(1, 1), noise_ |-> <<>>]
    /\ S_ = [i_syn_ex_ |-> Num(0, 1), V_syn_ |-> Num(0, 1),
             V_spike_ |-> Num(0, 1), V_m_ |-> Num(0, 1), position_ |-> 0]
    /\ tau_minus_ = 2
    /\ origin = 0
    /\ spiked = FALSE
    /\ spiketime = 0

Init ==
    /\ InitSynapse
    /\ InitNeuron
    /\ op = "init"
    /\ err = "none"

NextSynapse ==
    \/ \E r \in ReceptorSet : CheckConnection(r)
    \/ \E t \in GridTimes, k \in KminusSet, d \in BOOLEAN : Send(t, k, d)
    \/ \E t \in GridTimes : PostSpike(t)
    \/ \E i \in SpikeInputs : Step(i)

NextNeuron ==
    \/ \E d \in Dictionaries, r \in BOOLEAN : SetStatus(d, r)
    \/ \E i \in SpikeInputs : Step(i)

\* One synapse with fixed common properties, its target's history growing.
SpecSynapse == Init /\ [][NextSynapse]_vars

\* One neuron, reconfigured and advanced.
InitN ==
    /\ Init
    /\ weight_ = Num(1, 1)
    /\ cp = [tau_plus_ |-> 2, lambda_ |-> Num(1, 10), alpha_ |-> Num(1, 1),
             mu_ |-> 1]

SpecNeuron == InitN /\ [][NextNeuron]_vars

\* ------------------------------------------------------------------------
\* Properties
\* ------------------------------------------------------------------------
Max(a, b) == IF a >= b THEN a ELSE b

\* C1: starting from a weight >= 0, the weight of the synapse is >= 0 at
\* the end of every send call, whatever the history and the trace values.
C1_WeightNonNegative == weight_ >= 0

\* A second send whose facilitation raised the weight from 0 (mu = 0) and
\* whose depression, with a large trace value, was clamped at 0.
C1_Witness ==
    /\ op = "send" /\ err = "none" /\ sends = 2
    /\ cp.mu_ = 0 /\ lastWin # <<>> /\ Kplus_ > Num(1, 1)
    /\ lastK = Num(20, 1) /\ weight_ = 0

\* C2: a set_status call that fails leaves the parameters and the state,
\* noise signal and noise position included, as they were before the call.
C2_SetStatusAtomic ==
    [][(op' = "set_status" /\ err' # "none") => (P_' = P_ /\ S_' = S_)]_vars

\* C3: a step succeeds exactly while a noise value remains: it then reads
\* the value at the position and advances the position by one, so that a
\* signal of length N serves N steps in index order; with no value left
\* the step fails with NoiseExhausted and changes nothing.
NoiseTerm == S_.V_m_ - S_.V_syn_
             - (S_.V_spike_ + (IF spiked THEN P_.U_reset_ ELSE 0))

C3_NoiseConsumedInOrder ==
    [][op' = "step" =>
         IF S_.position_ < Len(P_.noise_)
         THEN /\ err' = "none"
              /\ S_'.position_ = S_.position_ + 1
              /\ NoiseTerm' = Mul(P_.U_noise_, P_.noise_[S_.position_ + 1])
         ELSE /\ err' = "NoiseExhausted"
              /\ S_' = S_]_vars

\* A signal with two different values, both consumed by two steps; the
\* third step has failed.
C3_Witness ==
    /\ op = "step" /\ err = "NoiseExhausted" /\ origin = 2
    /\ Len(P_.noise_) = 2 /\ S_.position_ = 2
    /\ P_.noise_[1] # P_.noise_[2]

\* C4: a step or send call that fails has changed none of the state of its
\* instance (membrane state and noise position; weight and trace).
C4_FailsAtomically ==
    [][(op' \in {"step", "send"} /\ err' # "none") =>
         (S_' = S_ /\ weight_' = weight_ /\ Kplus_' = Kplus_)]_vars

\* C5: check_connection fails with UnknownReceptorType exactly when the
\* receptor type asked for is not 0, and then registers nothing; when it
\* succeeds the synapse is registered once; no other call raises the error.
C5_UnknownReceptor ==
    /\ err = "UnknownReceptorType" => op = "check_connection"
    /\ op = "check_connection" =>
         /\ err = "UnknownReceptorType" <=> receptor # 0
         /\ err = "UnknownReceptorType" => registered = 0
         /\ err = "none" => registered = 1
    /\ registered \in {0, 1}
    /\ sends > 0 => registered = 1

\* A rejected check_connection: nothing registered.
C5_Witness ==
    /\ op = "check_connection" /\ err = "UnknownReceptorType"
    /\ receptor = 1 /\ registered = 0

\* C6: the event a send forwards carries the weight the synapse holds at
\* the end of that call, which is the weight after facilitation and then
\* depression; send does not change delay, receptor port or target.
C6_ForwardedEvent ==
    [][op' = "send" =>
         /\ delay_' = delay_ /\ rport_' = rport_ /\ target_' = target_
         /\ err' = "none" =>
              /\ event' = [receiver |-> target_, weight |-> weight_',
                           delay |-> delay_, rport |-> rport_]
              /\ event'.weight =
                   depress_(Facilitation(weight_, lastWin', t_lastspike,
                                         get_ms(delay_), Kplus_, cp),
                            lastK', cp)]_vars

\* A delivered second send in which facilitation and depression both
\* changed the weight.
C6_Witness ==
    /\ op = "send" /\ err = "none" /\ sends = 2
    /\ lastWin # <<>> /\ lastK = Num(2, 1) /\ Kplus_ > Num(1, 1)
    /\ event.weight = weight_ /\ weight_ > 0

\* C7: the noise position changes only by a successful step, which adds 1,
\* or by a successful set_status, which puts it to 0.
C7_PositionCountsConsumed ==
    [][\/ S_'.position_ = S_.position_
       \/ op' = "step" /\ err' = "none"
            /\ S_'.position_ = S_.position_ + 1
       \/ op' = "set_status" /\ err' = "none" /\ S_'.position_ = 0]_vars

\* C8: a step reports a spike exactly when the updated membrane potential
\* is >= the threshold, and the spike is stamped with the grid time of the
\* step, k * step size for the k-th step.
C8_ThresholdCrossing ==
    (op = "step" /\ err = "none") =>
        /\ spiked <=> S_.V_m_ >= P_.U_th_
        /\ spiked => spiketime = origin * Resolution

\* Constant input and zero noise: no spike in step 1, the first spike in
\* step 2.
C8_Witness ==
    /\ op = "step" /\ err = "none" /\ origin = 2 /\ spiked
    /\ P_.noise_ = <<Num(0, 1), Num(0, 1)>>
    /\ S_.V_spike_ = -P_.U_reset_
    /\ spiketime = 2 * Resolution

\* C9: a delivered send leaves the trace at its previous value times
\* exp((t_lastspike - t_spike) / tau_plus), plus 1.0; the trace is never
\* negative.
C9_TraceUpdate ==
    /\ [](Kplus_ >= 0)
    /\ [][(op' = "send" /\ err' = "none") =>
            Kplus_' = Mul(Kplus_, Exp(t_lastspike - t_lastspike',
                                      cp.tau_plus_)) + Num(1, 1)]_vars

\* A second delivered send: the trace 1.0 of the first has decayed and 1.0
\* was added.
C9_Witness ==
    /\ op = "send" /\ err = "none" /\ sends = 2
    /\ Kplus_ > Num(1, 1) /\ Kplus_ < Num(2, 1)

\* C10: a send over an empty history range with trace value v leaves the
\* weight max(0, w - lambda * alpha * w * v); w = 1.0, lambda = 0.1,
\* alpha = 1.0, v = 2.0 give 0.8.
C10_DepressionOnly ==
    [][(op' = "send" /\ lastWin' = <<>>) =>
         /\ weight_' =
              Max(0, weight_ - Mul(Mul(Mul(cp.lambda_, cp.alpha_), weight_),
                                   lastK'))
         /\ (weight_ = Num(1, 1) /\ cp.lambda_ = Num(1, 10)
               /\ cp.alpha_ = Num(1, 1) /\ lastK' = Num(2, 1))
              => weight_' = Num(8, 10)]_vars

\* The first send of a synapse of weight 1.0 with lambda = 0.1 and trace
\* value 2.0: the weight is 0.8.
C10_Witness ==
    /\ op = "send" /\ sends = 1 /\ lastWin = <<>>
    /\ cp.lambda_ = Num(1, 10) /\ cp.alpha_ = Num(1, 1)
    /\ lastK = Num(2, 1) /\ weight_ = Num(8, 10)

\* C11: with mu = 0 a send that meets one post-synaptic spike in its range
\* and whose depression is nil adds lambda * Kplus_ * exp(minus_dt /
\* tau_plus) to the weight, whatever the weight was; from weight 0 the
\* weight becomes that increment.
C11_IncrementWithoutExponent ==
    [][(op' = "send" /\ cp.mu_ = 0 /\ Len(lastWin') = 1
          /\ lastK' = Num(0, 1)) =>
         LET minus_dt == t_lastspike - (lastWin'[1] + get_ms(delay_))
             increment == Mul(cp.lambda_,
                              Mul(Kplus_, Exp(minus_dt, cp.tau_plus_)))
         IN  /\ weight_' - weight_ = increment
             /\ weight_ = Num(0, 1) => weight_' = increment]_vars

\* A second send with mu = 0 that met one spike and was not depressed: the
\* weight is positive and below lambda, so the send began at weight 0 and
\* the weight is the increment alone.
C11_Witness ==
    /\ op = "send" /\ sends = 2 /\ cp.mu_ = 0
    /\ Len(lastWin) = 1 /\ lastK = Num(0, 1)
    /\ weight_ > 0 /\ weight_ < cp.lambda_

\* The weight after the entries i..Len(win) of a range have been replayed
\* one by one on weight w with the trace value kplus.
RECURSIVE ReplayFrom(_, _, _, _, _)
ReplayFrom(i, w, win, tl, kplus) ==
    IF i > Len(win) THEN w
    ELSE LET minus_dt == tl - (win[i] + get_ms(delay_))
             increment == Mul(Mul(cp.lambda_, Pow(w, cp.mu_)),
                              Mul(kplus, Exp(minus_dt, cp.tau_plus_)))
         IN  ReplayFrom(i + 1, IF minus_dt = 0 THEN w ELSE w + increment,
                        win, tl, kplus)

AfterReplay(w, win) ==
    LET replayed == ReplayFrom(1, w, win, t_lastspike, Kplus_)
    IN  Max(0, replayed - Mul(Mul(Mul(cp.lambda_, cp.alpha_), replayed),
                              lastK'))

\* The entries of the history later than lo and, when closed, no later than
\* hi, otherwise earlier than hi.
Between(lo, hi, closed) ==
    LET Within(t) == lo < t /\ (t < hi \/ (closed /\ t = hi))
    IN  SelectSeq(history, Within)

C14_ZeroAbsorbing ==
    [][(cp.mu_ > 0 /\ weight_ = Num(0, 1)) => weight_' = Num(0, 1)]_vars

\* A second send with mu = 1 that replayed a spike with a positive trace
\* value and was not depressed, and left the weight 0: the weight was 0
\* before it, as a replay never lowers the weight.
C14_Witness ==
    /\ op = "send" /\ sends = 2 /\ cp.mu_ = 1
    /\ lastWin # <<>> /\ Kplus_ > Num(1, 1) /\ lastK = Num(0, 1)
    /\ weight_ = Num(0, 1)

====
